---------------------------- MODULE Spec2Model ----------------------------
(***************************************************************************)
(* A model of the constraint core of deployfix: the rule model, the        *)
(* entity map builder (duplicate check, self-conflict splitting), the      *)
(* Ring, Unknown and SMT engines, the verdict merge and the                *)
(* recommendation engine.                                                  *)
(*                                                                         *)
(* An entity name is a Rust String; it is modelled as the sequence of its  *)
(* characters, so that format!("{}_1", name), name.contains("_") and       *)
(* name.split("_").next() are computed as the code computes them.          *)
(***************************************************************************)
EXTENDS Integers, Sequences, FiniteSets, TLC

VARIABLES
    pc,         \* position of the run: which call comes next
    entities,   \* the Vec<Entity> handed to EntityMap::build
    envs,       \* Z3Solver.envs: "none" or the list of environments
    map,        \* the result of EntityMap::build
    out,        \* the verdict computed by the engine (or merge) under check
    lhs,        \* SolverOutput::merge: self
    rhs,        \* SolverOutput::merge: other
    ring,       \* the state of one RingSolver::solve call
    rec,        \* the recommendation list
    z3,         \* the state of one Z3Solver::solve call
    prev,       \* the pass before this one: the policy applied and the names it served
    parts       \* topology_split_entities and the topology key under check

vars == <<pc, entities, envs, map, out, lhs, rhs, rec, ring, z3, prev, parts>>

-----------------------------------------------------------------------------
(* Names: Strings as character sequences, ordered as Rust orders Strings.  *)

Str_a == <<"a">>
Str_b == <<"b">>
Str_c == <<"c">>
Str_a_b == <<"a", "_", "b">>
Str_a_1 == <<"a", "_", "1">>

\* the byte value of a character (the order of String is the order of bytes)
CharCode(ch) ==
    CASE ch = "1" -> 49
      [] ch = "2" -> 50
      [] ch = "_" -> 95
      [] ch = "a" -> 97
      [] ch = "b" -> 98
      [] ch = "c" -> 99
      [] ch = "d" -> 100

\* Ord for String: -1, 0 or 1
RECURSIVE NameCmp(_, _)
NameCmp(x, y) ==
    IF x = <<>> THEN (IF y = <<>> THEN 0 ELSE -1)
    ELSE IF y = <<>> THEN 1
    ELSE IF CharCode(Head(x)) < CharCode(Head(y)) THEN -1
    ELSE IF CharCode(Head(x)) > CharCode(Head(y)) THEN 1
    ELSE NameCmp(Tail(x), Tail(y))

\* the iteration order of a BTreeSet<EntityName>
RECURSIVE SortedNames(_)
SortedNames(S) ==
    IF S = {} THEN <<>>
    ELSE LET m == CHOOSE x \in S : \A y \in S : NameCmp(x, y) <= 0
         IN  <<m>> \o SortedNames(S \ {m})

\* Ord for BTreeSet<EntityName>: lexicographic over the iteration order
RECURSIVE NameSeqCmp(_, _)
NameSeqCmp(s, t) ==
    IF s = <<>> THEN (IF t = <<>> THEN 0 ELSE -1)
    ELSE IF t = <<>> THEN 1
    ELSE LET c == NameCmp(Head(s), Head(t))
         IN  IF c # 0 THEN c ELSE NameSeqCmp(Tail(s), Tail(t))

\* format!("{}_1", name) and format!("{}_2", name)
Sibling1(name) == name \o <<"_", "1">>
Sibling2(name) == name \o <<"_", "2">>

-----------------------------------------------------------------------------
(* Rules.  kind is the enum variant; a Mono rule's target is the single    *)
(* element of targets.  line models rule_source (0: Unknown, k: File(f,k)) *)
(* and meta the optional metadata ("none", or its topology value).         *)

Mono(src, tgt, ty, ln, md) ==
    [kind |-> "Mono", source |-> src, targets |-> {tgt}, type |-> ty,
     line |-> ln, meta |-> md]

Multi(src, tgts, ty, ln, md) ==
    [kind |-> "Multi", source |-> src, targets |-> tgts, type |-> ty,
     line |-> ln, meta |-> md]

MonoTarget(r) == CHOOSE t \in r.targets : TRUE

IntCmp(i, j) == IF i < j THEN -1 ELSE IF i > j THEN 1 ELSE 0

KindRank(k) == IF k = "Mono" THEN 0 ELSE 1
TypeRank(t) == IF t = "require" THEN 0 ELSE 1
\* EntityRuleSource: File(path, line) is declared before Unknown
SourceCmp(l1, l2) ==
    IF l1 = 0 THEN (IF l2 = 0 THEN 0 ELSE 1)
    ELSE IF l2 = 0 THEN -1 ELSE IntCmp(l1, l2)
\* Option<EntityRuleMetadata>: None first, then by the topology value
MetaRank(m) ==
    CASE m = "none" -> 0 [] m = "node" -> 1 [] m = "rack" -> 2 [] m = "zone" -> 3

\* the derived Ord of EntityRule: variant, then the fields in order
RuleCmp(r1, r2) ==
    LET c1 == IntCmp(KindRank(r1.kind), KindRank(r2.kind))
        c2 == NameCmp(r1.source, r2.source)
        c3 == NameSeqCmp(SortedNames(r1.targets), SortedNames(r2.targets))
        c4 == IntCmp(TypeRank(r1.type), TypeRank(r2.type))
        c5 == SourceCmp(r1.line, r2.line)
        c6 == IntCmp(MetaRank(r1.meta), MetaRank(r2.meta))
    IN  IF c1 # 0 THEN c1 ELSE IF c2 # 0 THEN c2 ELSE IF c3 # 0 THEN c3
        ELSE IF c4 # 0 THEN c4 ELSE IF c5 # 0 THEN c5 ELSE c6

\* the iteration order of a BTreeSet<EntityRule>; also sort() then dedup()
RECURSIVE SortedRules(_)
SortedRules(S) ==
    IF S = {} THEN <<>>
    ELSE LET m == CHOOSE x \in S : \A y \in S : RuleCmp(x, y) <= 0
         IN  <<m>> \o SortedRules(S \ {m})

Range(s) == {s[i] : i \in DOMAIN s}

\* Vec::sort followed by Vec::dedup
SortDedup(list) == SortedRules(Range(list))

IsSortedDedup(list) ==
    \A i \in 1..(Len(list) - 1) : RuleCmp(list[i], list[i + 1]) < 0

-----------------------------------------------------------------------------
(* Entities.                                                               *)

Entity(n, req, exc, prio) ==
    [name |-> n, requires |-> req, excludes |-> exc, priority |-> prio]

\* Entity::rules: the requires in order, then the excludes in order
EntityRules(e) == SortedRules(e.requires) \o SortedRules(e.excludes)

is_dummy(e) == e.requires = {} /\ e.excludes = {}

-----------------------------------------------------------------------------
(* EntityMap::build (solver/map.rs).                                       *)

\* mutant of check_duplicate_names: a name counts as repeated from its third
\* occurrence on (count > 2)
check_duplicate_names_off_by_one(ents) ==
    {n \in {ents[i].name : i \in DOMAIN ents} :
        Cardinality({i \in DOMAIN ents : ents[i].name = n}) > 2}

\* the names that occur more than once in the list (count > 1)
check_duplicate_names(ents) ==
    {n \in {ents[i].name : i \in DOMAIN ents} :
        Cardinality({i \in DOMAIN ents : ents[i].name = n}) > 1}

\* every order in which a HashMap or HashSet may hand out the elements of S
RECURSIVE Orderings(_)
Orderings(S) ==
    IF S = {} THEN {<<>>}
    ELSE UNION {{<<x>> \o s : s \in Orderings(S \ {x})} : x \in S}

\* exclude rules of clone e_i: X as a target is replaced by the names of `to`
rename_set(set, from, to) ==
    UNION {IF r.kind = "Mono"
           THEN IF MonoTarget(r) = from
                THEN {Mono(r.source, n, r.type, r.line, r.meta) : n \in to}
                ELSE {r}
           ELSE {Multi(r.source,
                       UNION {IF t = from THEN to ELSE {t} : t \in r.targets},
                       r.type, r.line, r.meta)}
           : r \in set}

\* mutant of split_require_rule: a Mono rule keeps its target
split_require_rule_keeps_mono(rules, name_mapping) ==
    {IF r.kind = "Mono" THEN r
     ELSE Multi(r.source,
                UNION {IF t \in name_mapping THEN {Sibling1(t), Sibling2(t)} ELSE {t}
                       : t \in r.targets},
                r.type, r.line, r.meta)
     : r \in rules}

\* rename pass, requires: a split target becomes both siblings in one Multi
split_require_rule(rules, name_mapping) ==
    {IF r.kind = "Mono"
     THEN IF MonoTarget(r) \in name_mapping
          THEN Multi(r.source, {Sibling1(MonoTarget(r)), Sibling2(MonoTarget(r))},
                     r.type, r.line, r.meta)
          ELSE r
     ELSE Multi(r.source,
                UNION {IF t \in name_mapping THEN {Sibling1(t), Sibling2(t)} ELSE {t}
                       : t \in r.targets},
                r.type, r.line, r.meta)
     : r \in rules}

\* rename pass, excludes: one rule per sibling
split_exclude_rules(rules, name_mapping) ==
    UNION {IF r.kind = "Mono"
           THEN IF MonoTarget(r) \in name_mapping
                THEN {Mono(r.source, Sibling1(MonoTarget(r)), r.type, r.line, r.meta),
                      Mono(r.source, Sibling2(MonoTarget(r)), r.type, r.line, r.meta)}
                ELSE {r}
           ELSE IF \E t \in r.targets : t \in name_mapping
                THEN {Multi(r.source,
                            {IF t \in name_mapping THEN Sibling1(t) ELSE t : t \in r.targets},
                            r.type, r.line, r.meta),
                      Multi(r.source,
                            {IF t \in name_mapping THEN Sibling2(t) ELSE t : t \in r.targets},
                            r.type, r.line, r.meta)}
                ELSE {r}
           : r \in rules}

\* require rules of both clones: one rule per sibling, X replaced by it
force_split_rule(rules, from, to) ==
    UNION {IF r.kind = "Mono"
           THEN IF MonoTarget(r) = from
                THEN {Mono(r.source, e, r.type, r.line, r.meta) : e \in to}
                ELSE {r}
           ELSE IF from \in r.targets
                THEN {Multi(r.source,
                            {IF t = from THEN e ELSE t : t \in r.targets},
                            r.type, r.line, r.meta) : e \in to}
                ELSE {r}
           : r \in rules}

self_conflict_flag(e) == \E c \in e.excludes : e.name \in c.targets

self_require_flag(e) ==
    \E r \in e.requires :
        IF r.kind = "Mono" THEN MonoTarget(r) = e.name
        ELSE \A t \in r.targets : t = e.name

\* first pass, one entity: the entity itself, or its two clones
SplitEntity(e) ==
    IF ~self_conflict_flag(e) THEN <<e>>
    ELSE LET e1_name == Sibling1(e.name)
             e2_name == Sibling2(e.name)
         IN  << [e EXCEPT !.name = e1_name,
                          !.requires = force_split_rule(e.requires, e.name, {e1_name, e2_name}),
                          !.excludes = rename_set(e.excludes, e.name, {e2_name})],
                [e EXCEPT !.name = e2_name,
                          !.requires = force_split_rule(e.requires, e.name, {e1_name, e2_name}),
                          !.excludes = rename_set(e.excludes, e.name, {e1_name})] >>

RECURSIVE FlatMapSplit(_)
FlatMapSplit(ents) ==
    IF ents = <<>> THEN <<>>
    ELSE SplitEntity(Head(ents)) \o FlatMapSplit(Tail(ents))

\* (entities, self_conflicts)
preprocessing_self_conflicts(ents) ==
    LET name_mapping == {ents[i].name : i \in {j \in DOMAIN ents : self_conflict_flag(ents[j])}}
        self_conflicts == {ents[i].name : i \in {j \in DOMAIN ents :
                               self_conflict_flag(ents[j]) /\ self_require_flag(ents[j])}}
        split == FlatMapSplit(ents)
        renamed == [i \in DOMAIN split |->
                       [split[i] EXCEPT
                           !.requires = split_require_rule(split[i].requires, name_mapping),
                           !.excludes = split_exclude_rules(split[i].excludes, name_mapping)]]
    IN  <<renamed, self_conflicts>>

collect_entity_names(ents) ==
    UNION {{ents[i].name}
           \cup UNION {r.targets : r \in ents[i].requires}
           \cup UNION {r.targets : r \in ents[i].excludes}
           : i \in DOMAIN ents}

NoMap == [ok |-> FALSE, duplicates |-> <<>>, entities |-> <<>>, names |-> {},
          self_conflicts |-> {}]

\* Ok(EntityMap) or Err(DuplicateEntityName(duplicates)); the error lists the
\* names in the order the HashMap hands them out
build(ents, duplicates) ==
    IF Len(duplicates) # 0 THEN [NoMap EXCEPT !.duplicates = duplicates]
    ELSE LET pre == preprocessing_self_conflicts(ents)
         IN  [ok |-> TRUE, duplicates |-> <<>>, entities |-> pre[1],
              names |-> collect_entity_names(pre[1]), self_conflicts |-> pre[2]]

-----------------------------------------------------------------------------
(* Inputs: entity lists as the parsers build them (tests/basic.rs 44-128): *)
(* every rule of an entity carries the entity's name as its source.        *)

\* the rules an entity named src may carry over the target names T
RulePool(src, T, Lines, Metas) ==
    {Mono(src, t, ty, ln, md) :
        t \in T, ty \in {"require", "exclude"}, ln \in Lines, md \in Metas}
    \cup {Multi(src, ts, ty, ln, md) :
        ts \in {x \in SUBSET T : Cardinality(x) >= 2},
        ty \in {"require", "exclude"}, ln \in Lines, md \in Metas}

\* the entity named n carrying the rules of R whose source is n
EntityOf(n, R) ==
    Entity(n, {r \in R : r.source = n /\ r.type = "require"},
              {r \in R : r.source = n /\ r.type = "exclude"}, "default")

SeqsUpTo(S, n) == UNION {[1..k -> S] : k \in 1..n}

\* the subsets of S of at most k elements
RECURSIVE SubsetsUpTo(_, _)
SubsetsUpTo(S, k) ==
    IF k = 0 \/ S = {} THEN {{}}
    ELSE LET x == CHOOSE y \in S : TRUE
         IN  SubsetsUpTo(S \ {x}, k)
             \cup {T \cup {x} : T \in SubsetsUpTo(S \ {x}, k - 1)}

\* the entity lists whose names are one of the sequences NS and that carry,
\* in total, at most maxRules of the rules Pool(name)
EntityListsFrom(NS, Pool(_), maxRules) ==
    UNION {{[i \in DOMAIN ns |-> EntityOf(ns[i], R)] :
               R \in SubsetsUpTo(UNION {Pool(ns[i]) : i \in DOMAIN ns}, maxRules)}
           : ns \in NS}

\* entity lists of at most maxLen entities named in N carrying, in total, at
\* most maxRules rules over the targets T
EntityLists(N, T, Lines, Metas, maxLen, maxRules) ==
    LET Pool(n) == RulePool(n, T, Lines, Metas)
    IN  EntityListsFrom(SeqsUpTo(N, maxLen), Pool, maxRules)

NoVerdict == [kind |-> "None"]
Ok == [kind |-> "Ok"]
Conflict(m) == [kind |-> "Conflict", conflicts |-> m]
NoRing == [phase |-> "idle"]

NoZ3 == [phase |-> "idle"]

NoPrev == [pass |-> 0]

NoParts == [key |-> "none"]

-----------------------------------------------------------------------------
(* EntityMap::build on lists with repeated names.                          *)

MaxDupEntities == 4

DupNames == {Str_a, Str_b, Str_a_1}

InitDup ==
    /\ pc = "build"
    /\ entities \in EntityLists(DupNames, {Str_a}, {0}, {"none"}, MaxDupEntities, 1)
    /\ envs = "none" /\ map = NoMap /\ out = NoVerdict
    /\ lhs = NoVerdict /\ rhs = NoVerdict /\ rec = <<>> /\ ring = NoRing /\ z3 = NoZ3
    /\ prev = NoPrev /\ parts = NoParts

\* EntityMap::build, map.rs 506-518
Build ==
    /\ pc = "build"
    /\ \E duplicates \in Orderings(check_duplicate_names(entities)) :
           map' = build(entities, duplicates)
    /\ pc' = "built"
    /\ UNCHANGED <<entities, envs, out, lhs, rhs, rec, ring, z3, prev, parts>>

NextDup == Build

SpecDup == InitDup /\ [][NextDup]_vars

\* the names that two different positions of the input list share
RepeatedNames ==
    {entities[i].name : i \in {k \in DOMAIN entities :
        \E j \in DOMAIN entities : j # k /\ entities[j].name = entities[k].name}}

\* C4: build fails with DuplicateEntityName exactly when two input entities
\* have the same name; the error then lists exactly the names that occur more
\* than once, each of them once; with pairwise distinct names build succeeds.
C4_DuplicateDetection ==
    pc = "built" =>
        /\ (~map.ok) <=> (RepeatedNames # {})
        /\ Range(map.duplicates) = RepeatedNames
        /\ Len(map.duplicates) = Cardinality(RepeatedNames)

\* two different names are repeated and one of them occurs in second place
C4_Witness ==
    /\ pc = "built" /\ ~map.ok
    /\ Cardinality(RepeatedNames) = 2
    /\ map.duplicates[2] = Str_a

-----------------------------------------------------------------------------
(* EntityMap::build on lists with self-excluding entities.                 *)

MaxEntities == 2
MaxRules == 3

BuildNames == {Str_a, Str_b}

InitBuild ==
    /\ pc = "build"
    /\ entities \in EntityLists(BuildNames, BuildNames, {0}, {"none"}, MaxEntities, MaxRules)
    /\ envs = "none" /\ map = NoMap /\ out = NoVerdict
    /\ lhs = NoVerdict /\ rhs = NoVerdict /\ rec = <<>> /\ ring = NoRing /\ z3 = NoZ3
    /\ prev = NoPrev /\ parts = NoParts

NextBuild == Build

SpecBuild == InitBuild /\ [][NextBuild]_vars

MapEntityNames == {map.entities[i].name : i \in DOMAIN map.entities}

MapRules ==
    UNION {map.entities[i].requires \cup map.entities[i].excludes : i \in DOMAIN map.entities}

SelfExcluding == {entities[i].name : i \in {k \in DOMAIN entities :
                     \E r \in entities[k].excludes : entities[k].name \in r.targets}}

\* C5 as claimed: for an entity X with an exclude rule targeting X the built
\* map holds X_1 and X_2 in place of X and holds no rule at all whose source
\* equals its only target.
C5_AsClaimed ==
    (pc = "built" /\ map.ok) =>
        \A X \in SelfExcluding :
            /\ Sibling1(X) \in MapEntityNames
            /\ Sibling2(X) \in MapEntityNames
            /\ X \notin MapEntityNames
            /\ \A r \in MapRules : r.targets # {r.source}

\* C5 as amended: for an entity X with an exclude rule targeting X the built
\* map holds X_1 and X_2 in place of X and no rule of the map names X as a
\* target (so no rule of X has X as its only target); a self-require of an
\* entity that does not exclude itself is kept as it is.
C5_SelfConflictSplit ==
    (pc = "built" /\ map.ok) =>
        /\ \A X \in SelfExcluding :
            /\ Sibling1(X) \in MapEntityNames
            /\ Sibling2(X) \in MapEntityNames
            /\ X \notin MapEntityNames
            /\ \A r \in MapRules : X \notin r.targets
        /\ \A i \in DOMAIN entities :
              entities[i].name \notin SelfExcluding =>
                  \A r \in entities[i].requires :
                      r.targets = {r.source} => r \in MapRules

\* a self-excluding, self-requiring entity next to an entity that requires it
C5_Witness ==
    /\ pc = "built" /\ map.ok
    /\ Str_a \in SelfExcluding
    /\ \E i \in DOMAIN entities :
          /\ entities[i].name = Str_b
          /\ \E r \in entities[i].requires : Str_a \in r.targets
    /\ \E i \in DOMAIN entities :
          /\ entities[i].name = Str_a
          /\ \E r \in entities[i].requires : r.targets = {Str_a}

-----------------------------------------------------------------------------
(* SolverOutput::merge (solver/solver.rs 38-64).  A conflict map is a      *)
(* function from names to rule lists.                                      *)

\* mutant of merge: the result is passed through new_conflict (sort, dedup)
merge_normalising(self, other) ==
    LET norm(c) == [k \in DOMAIN c |-> SortDedup(c[k])]
    IN  IF self.kind = "Ok" /\ other.kind = "Ok" THEN Ok
        ELSE IF self.kind = "Ok" THEN Conflict(norm(other.conflicts))
        ELSE IF other.kind = "Ok" THEN Conflict(norm(self.conflicts))
        ELSE Conflict([k \in DOMAIN self.conflicts \cup DOMAIN other.conflicts |->
                 IF k \in DOMAIN self.conflicts /\ k \in DOMAIN other.conflicts
                 THEN SortDedup(self.conflicts[k] \o other.conflicts[k])
                 ELSE IF k \in DOMAIN self.conflicts THEN SortDedup(self.conflicts[k])
                 ELSE SortDedup(other.conflicts[k])])

merge(self, other) ==
    IF self.kind = "Ok" /\ other.kind = "Ok" THEN Ok
    ELSE IF self.kind = "Ok" THEN Conflict(other.conflicts)
    ELSE IF other.kind = "Ok" THEN Conflict(self.conflicts)
    ELSE Conflict([k \in DOMAIN self.conflicts \cup DOMAIN other.conflicts |->
             IF k \in DOMAIN self.conflicts /\ k \in DOMAIN other.conflicts
             THEN SortDedup(self.conflicts[k] \o other.conflicts[k])   \* extend, sort, dedup
             ELSE IF k \in DOMAIN self.conflicts THEN self.conflicts[k] \* left as it is
             ELSE other.conflicts[k]])                                 \* inserted as it is

MaxListLen == 2

\* a Mono and a Multi rule; the Mono rule is the smaller one
MergeRules ==
    {Mono(Str_a, Str_b, "require", 0, "none"),
     Multi(Str_a, {Str_a, Str_b}, "exclude", 0, "none")}

\* non-empty rule lists, in any order and with repetitions: the engines
\* return their lists unsorted (Unknown, SMT) and with repetitions (Ring)
RuleLists(R, n) == UNION {[1..k -> R] : k \in 1..n}

\* Ok, and the Conflict verdicts over the keys K (an engine returns Ok, never
\* a Conflict with no key)
Verdicts(K, R, n) ==
    {Ok} \cup UNION {{Conflict(m) : m \in [ks -> RuleLists(R, n)]} : ks \in (SUBSET K) \ {{}}}

InitMerge ==
    /\ pc = "merge"
    /\ lhs \in Verdicts({Str_a, Str_b}, MergeRules, MaxListLen)
    /\ rhs \in Verdicts({Str_a, Str_b}, MergeRules, MaxListLen)
    /\ entities = <<>> /\ envs = "none" /\ map = NoMap /\ out = NoVerdict
    /\ rec = <<>> /\ ring = NoRing /\ z3 = NoZ3
    /\ prev = NoPrev /\ parts = NoParts

Merge ==
    /\ pc = "merge"
    /\ out' = merge(lhs, rhs)
    /\ pc' = "merged"
    /\ UNCHANGED <<entities, envs, map, lhs, rhs, rec, ring, z3, prev, parts>>

NextMerge == Merge

SpecMerge == InitMerge /\ [][NextMerge]_vars

\* C6: Ok is a two-sided identity of merge: merge(Ok, v) and merge(v, Ok) are
\* v itself, with the same keys and the same rule lists in the same order.
C6_OkIdentity ==
    pc = "merged" =>
        /\ lhs = Ok => out = rhs
        /\ rhs = Ok => out = lhs

\* Ok is merged with a Conflict whose list is neither sorted nor free of
\* repetitions
C6_Witness ==
    /\ pc = "merged" /\ lhs = Ok /\ rhs.kind = "Conflict"
    /\ \E k \in DOMAIN rhs.conflicts : ~IsSortedDedup(rhs.conflicts[k])
    /\ out = rhs

ListOrEmpty(c, k) == IF k \in DOMAIN c THEN c[k] ELSE <<>>

\* C7: merge(Conflict(a), Conflict(b)) is Conflict(m), the keys of m are the
\* keys of a and of b, and m[k] is the sorted, duplicate-free union of a[k]
\* and b[k] (a missing list counting as empty).
C7_AsClaimed ==
    (pc = "merged" /\ lhs.kind = "Conflict" /\ rhs.kind = "Conflict") =>
        /\ out.kind = "Conflict"
        /\ DOMAIN out.conflicts = DOMAIN lhs.conflicts \cup DOMAIN rhs.conflicts
        /\ \A k \in DOMAIN out.conflicts :
              out.conflicts[k] = SortedRules(Range(ListOrEmpty(lhs.conflicts, k))
                                             \cup Range(ListOrEmpty(rhs.conflicts, k)))

-----------------------------------------------------------------------------
(* RingSolver (solver/ring.rs).  The graph has one node per name and one    *)
(* edge per require rule and target; graph.cycles() hands out every simple *)
(* cycle, a self-loop included, as the list of its nodes.                  *)

\* build_graph: the edges, as <<node of the entity, target node, rule>>
GraphEdges(m) ==
    UNION {UNION {{<<m.entities[i].name, t, r>> : t \in r.targets}
                  : r \in m.entities[i].requires}
           : i \in DOMAIN m.entities}

GraphNodes(m) ==
    {m.entities[i].name : i \in DOMAIN m.entities} \cup {e[2] : e \in GraphEdges(m)}

\* the simple paths of k nodes that start at their least node
RECURSIVE Paths(_, _, _)
Paths(N, E, k) ==
    IF k = 1 THEN {<<n>> : n \in N}
    ELSE UNION {{Append(q, v) : v \in {w \in N : /\ <<q[Len(q)], w>> \in E
                                                  /\ \A i \in DOMAIN q : q[i] # w
                                                  /\ NameCmp(q[1], w) < 0}}
                : q \in Paths(N, E, k - 1)}

\* graph.cycles(): the simple cycles, each written from its least node
Cycles(m) ==
    LET N == GraphNodes(m)
        E == {<<e[1], e[2]>> : e \in GraphEdges(m)}
    IN  UNION {{q \in Paths(N, E, k) : <<q[Len(q)], q[1]>> \in E} : k \in 1..Cardinality(N)}

\* EntityRule::is_in_target: the Mono arm compares the parameter with itself
is_in_target(r, target) ==
    IF r.kind = "Mono" THEN target = target ELSE target \in r.targets

\* mutant of EdgeInCycle: an edge from a node to itself is taken too
EdgeInCycle_with_self_loops(cycle, source, target) == target \in cycle

\* ring.rs 96-99: an edge is skipped when it leads to its own source or out
\* of the cycle's nodes
EdgeInCycle(cycle, source, target) == target # source /\ target \in cycle

Reverse(s) == [i \in 1..Len(s) |-> s[Len(s) + 1 - i]]

RECURSIVE Flatten(_)
Flatten(ss) == IF ss = <<>> THEN <<>> ELSE Head(ss) \o Flatten(Tail(ss))

\* build_graph, ring.rs 42-57: the edges of one entity in the order they are
\* added, rule by rule and target by target in the order of the BTreeSets
AddedEdges(e) ==
    LET rules == SortedRules(e.requires)
    IN  Flatten([i \in DOMAIN rules |->
                   LET targets == SortedNames(rules[i].targets)
                   IN  [j \in DOMAIN targets |-> <<e.name, targets[j], rules[i]>>]])

\* graph.edges(node), ring.rs 87: petgraph's Graph hands out the edges of a
\* node from the last added to the first
NodeEdges(m, node) ==
    Reverse(Flatten([i \in DOMAIN m.entities |->
                       IF m.entities[i].name = node THEN AddedEdges(m.entities[i])
                       ELSE <<>>]))

\* the edges of one node of a cycle that pass the checks of ring.rs 89-104
Visits(m, cycle, node) ==
    SelectSeq(NodeEdges(m, node),
              LAMBDA e : /\ EdgeInCycle(cycle, e[1], e[2])
                         /\ e[1] = e[3].source
                         /\ is_in_target(e[3], e[2]))

\* ring.rs 85-88, one cycle: the edges in the order they are walked.  The
\* nodes of the HashSet are taken in name order: an edge changes only the
\* list and the rule_ways entries of its own source node, so the order of
\* the nodes does not change what is computed.
RECURSIVE CycleEdges(_, _, _)
CycleEdges(m, cycle, nodes) ==
    IF nodes = <<>> THEN <<>>
    ELSE Visits(m, cycle, Head(nodes)) \o CycleEdges(m, cycle, Tail(nodes))

EmptyMap == [x \in {} |-> <<>>]

Push(c, k, v) ==
    IF k \in DOMAIN c THEN [c EXCEPT ![k] = Append(@, v)]
    ELSE [x \in DOMAIN c \cup {k} |-> IF x = k THEN <<v>> ELSE c[x]]

\* ring.rs 106-125, one edge: rule_ways and conflicts after the edge
VisitEdge(st, e) ==
    LET source_name == e[1]
        target_name == e[2]
        rule == e[3]
        target_len == Cardinality(rule.targets)
    IN  IF target_len > 1
        THEN LET set == (IF rule \in DOMAIN st.rule_ways THEN st.rule_ways[rule] ELSE {})
                        \cup {target_name}
                 ways == [x \in DOMAIN st.rule_ways \cup {rule} |->
                             IF x = rule THEN set ELSE st.rule_ways[x]]
             IN  [st EXCEPT !.rule_ways = ways,
                            !.conflicts = IF Cardinality(set) >= target_len
                                          THEN Push(@, source_name, <<target_name, rule>>)
                                          ELSE @]
        ELSE [st EXCEPT !.conflicts = Push(@, source_name, <<target_name, rule>>)]

RECURSIVE VisitEdges(_, _)
VisitEdges(st, order) ==
    IF order = <<>> THEN st ELSE VisitEdges(VisitEdge(st, Head(order)), Tail(order))

\* ring.rs 130-156: the rules kept are those whose recorded target is itself
\* a key of the conflicts
PostFilter(conflicts) ==
    LET unsat_depends == UNION {{p[1] : p \in Range(conflicts[k])} : k \in DOMAIN conflicts}
        real_conflicts == {n \in unsat_depends : n \in DOMAIN conflicts}
        kept(k) == SelectSeq(conflicts[k], LAMBDA p : p[1] \in real_conflicts)
        keys == {k \in DOMAIN conflicts : kept(k) # <<>>}
    IN  IF keys = {} THEN Ok
        ELSE Conflict([k \in keys |-> [i \in DOMAIN kept(k) |-> kept(k)[i][2]]])

MaxRingRules == 3

RingNames == {Str_a, Str_b, Str_c}

\* require rules over the names (one target, or both other names), and the
\* exclusion of the entity by itself
RingPool(n) ==
    {r \in RulePool(n, RingNames, {0}, {"none"}) :
        /\ r.type = "require"
        /\ r.kind = "Multi" => n # Str_c /\ r.targets = RingNames \ {n}}
    \cup (IF n = Str_c THEN {Mono(n, n, "exclude", 0, "none")} ELSE {})

InitRing ==
    /\ pc = "build"
    /\ entities \in EntityListsFrom({SortedNames(RingNames)}, RingPool, MaxRingRules)
    /\ envs = "none" /\ map = NoMap /\ out = NoVerdict
    /\ lhs = NoVerdict /\ rhs = NoVerdict /\ rec = <<>> /\ ring = NoRing /\ z3 = NoZ3
    /\ prev = NoPrev /\ parts = NoParts

\* ring.rs 66-84: the graph and its cycles; no cycle is Ok.  A cycle of one
\* node is passed over by ring.rs 81-83 and is not kept in `todo`.
RingStart ==
    /\ pc = "built" /\ map.ok
    /\ IF Cycles(map) = {}
       THEN /\ out' = Ok
            /\ pc' = "solved"
            /\ ring' = ring
       ELSE /\ ring' = [phase |-> "cycles",
                        todo |-> {c \in Cycles(map) : Len(c) > 1},
                        rule_ways |-> [x \in {} |-> {}],
                        conflicts |-> EmptyMap]
            /\ pc' = "ring"
            /\ out' = out
    /\ UNCHANGED <<entities, envs, map, lhs, rhs, rec, z3, prev, parts>>

\* ring.rs 80-128, one cycle of graph.cycles(), taken in any order
RingCycle ==
    /\ pc = "ring"
    /\ \E c \in ring.todo :
         LET st == VisitEdges([rule_ways |-> ring.rule_ways,
                               conflicts |-> ring.conflicts],
                              CycleEdges(map, Range(c), SortedNames(Range(c))))
         IN  ring' = [ring EXCEPT !.todo = @ \ {c},
                                  !.rule_ways = st.rule_ways,
                                  !.conflicts = st.conflicts]
    /\ UNCHANGED <<pc, entities, envs, map, out, lhs, rhs, rec, z3, prev, parts>>

\* ring.rs 130-162: the post-filter and the verdict
RingFinish ==
    /\ pc = "ring" /\ ring.todo = {}
    /\ out' = PostFilter(ring.conflicts)
    /\ pc' = "solved"
    /\ UNCHANGED <<entities, envs, map, lhs, rhs, rec, ring, z3, prev, parts>>

NextRing == Build \/ RingStart \/ RingCycle \/ RingFinish

SpecRing == InitRing /\ [][NextRing]_vars

\* the nodes that can be reached from the nodes S along the edges E
RECURSIVE ReachFrom(_, _)
ReachFrom(E, S) ==
    LET next == S \cup {e[2] : e \in {x \in E : x[1] \in S}}
    IN  IF next = S THEN S ELSE ReachFrom(E, next)

RequireGraph == {<<e[1], e[2]>> : e \in GraphEdges(map)}

\* C9: every rule the Ring engine reports is a require rule of the entity it
\* is reported under, and one of its targets, other than the entity itself,
\* leads back to the entity along require edges: the edge from the rule's
\* source to that target lies on a cycle of at least two nodes.  A
\* require-graph whose only cycles are self-loops is therefore never reported.
C9_RingSoundness ==
    (pc = "solved" /\ out.kind = "Conflict") =>
        \A k \in DOMAIN out.conflicts : \A i \in DOMAIN out.conflicts[k] :
            LET r == out.conflicts[k][i]
            IN  /\ r.type = "require"
                /\ r.source = k
                /\ \E t \in r.targets :
                      /\ t # k
                      /\ <<k, t, r>> \in GraphEdges(map)
                      /\ k \in ReachFrom(RequireGraph, {t})

\* an entity that requires itself lies on a cycle of two or more nodes: its
\* rules on that cycle are reported, the rule of the self-loop is not
C9_Witness ==
    /\ pc = "solved" /\ out.kind = "Conflict"
    /\ \E e \in GraphEdges(map) :
          /\ e[1] = e[2]
          /\ e[1] \in DOMAIN out.conflicts
          /\ out.conflicts[e[1]] # <<>>
          /\ e[3] \notin Range(out.conflicts[e[1]])

-----------------------------------------------------------------------------
(* UnknownSolver (solver/unknown.rs).                                      *)

collect_definitions(m) == {m.entities[i].name : i \in DOMAIN m.entities}

\* the rules of e all of whose targets no entity defines
unknown_rules_all_targets(m, e) ==
    SelectSeq(EntityRules(e), LAMBDA r : \A t \in r.targets : t \notin collect_definitions(m))

\* unknown.rs 34-43: the rules of e with a target that no entity defines
unknown_rules(m, e) ==
    SelectSeq(EntityRules(e), LAMBDA r : \E t \in r.targets : t \notin collect_definitions(m))

\* UnknownSolver::solve, unknown.rs 26-58
UnknownSolve(m) ==
    LET keys == {m.entities[i].name : i \in {j \in DOMAIN m.entities :
                                                unknown_rules(m, m.entities[j]) # <<>>}}
    IN  IF keys = {} THEN Ok
        ELSE Conflict([k \in keys |->
                 unknown_rules(m, m.entities[CHOOSE i \in DOMAIN m.entities :
                                                m.entities[i].name = k])])

MaxUnknownRules == 2

UnknownNames == {Str_a, Str_b}

UnknownTargets == {Str_a, Str_b, Str_c}

UnknownPool(n) == RulePool(n, UnknownTargets, {0}, {"none"})

InitUnknown ==
    /\ pc = "build"
    /\ entities \in EntityListsFrom({SortedNames(UnknownNames)}, UnknownPool, MaxUnknownRules)
    /\ envs = "none" /\ map = NoMap /\ out = NoVerdict
    /\ lhs = NoVerdict /\ rhs = NoVerdict /\ rec = <<>> /\ ring = NoRing /\ z3 = NoZ3
    /\ prev = NoPrev /\ parts = NoParts

Unknown ==
    /\ pc = "built" /\ map.ok
    /\ out' = UnknownSolve(map)
    /\ pc' = "solved"
    /\ UNCHANGED <<entities, envs, map, lhs, rhs, rec, ring, z3, prev, parts>>

NextUnknown == Build \/ Unknown

SpecUnknown == InitUnknown /\ [][NextUnknown]_vars

\* C8, as the specification states it: every rule list of a returned verdict
\* is sorted by the order of the rules and holds no rule twice
C8_AsClaimed ==
    (pc = "solved" /\ out.kind = "Conflict") =>
        \A k \in DOMAIN out.conflicts : IsSortedDedup(out.conflicts[k])

-----------------------------------------------------------------------------
(* recommend_policy_all (plugin/k8s/cli.rs).                               *)

\* cli.rs 568-572: the distinct rule lists of the conflict map
unique_rule_set(conflicts) == {conflicts[k] : k \in DOMAIN conflicts}

\* cli.rs 578-587: how often the rule stands in the distinct lists, a
\* repetition inside one list counted each time
RECURSIVE rule_count(_, _)
rule_count(lists, rule) ==
    IF lists = {} THEN 0
    ELSE LET l == CHOOSE x \in lists : TRUE
         IN  Cardinality({i \in DOMAIN l : l[i] = rule}) + rule_count(lists \ {l}, rule)

\* cli.rs 588-591: the counted rules, collected from the HashMap in any order
\* and then sorted, stably, by falling count
CountOrders(conflicts) ==
    LET lists == unique_rule_set(conflicts)
        counted == UNION {Range(l) : l \in lists}
    IN  {o \in Orderings(counted) :
            \A i \in 1..(Len(o) - 1) :
                rule_count(lists, o[i]) >= rule_count(lists, o[i + 1])}

\* cli.rs 598-601
relation_cnt(rule) == IF rule.kind = "Mono" THEN 1 ELSE Cardinality(rule.targets)

\* cli.rs 595-610: the fold; a rule is pushed while the sum of the relation
\* counts of the rules before it is below the number of distinct lists
RECURSIVE Pick(_, _, _)
Pick(order, sum, unique_rule_set_count) ==
    IF order = <<>> THEN <<>>
    ELSE (IF sum < unique_rule_set_count THEN <<Head(order)>> ELSE <<>>)
         \o Pick(Tail(order), sum + relation_cnt(Head(order)), unique_rule_set_count)

\* recommend_policy_all, cli.rs 567-615, for one order of the counted rules
recommend_policy_all(conflicts, order) ==
    Pick(order, 0, Cardinality(unique_rule_set(conflicts)))

\* two Mono rules and a Multi rule
RecRules ==
    {Mono(Str_a, Str_b, "require", 0, "none"),
     Mono(Str_a, Str_b, "exclude", 0, "none"),
     Multi(Str_a, {Str_a, Str_b}, "exclude", 0, "none")}

InitRec ==
    /\ pc = "recommend"
    /\ out \in Verdicts({Str_a, Str_b}, RecRules, MaxListLen) \ {Ok}
    /\ entities = <<>> /\ envs = "none" /\ map = NoMap
    /\ lhs = NoVerdict /\ rhs = NoVerdict /\ rec = <<>> /\ ring = NoRing /\ z3 = NoZ3
    /\ prev = NoPrev /\ parts = NoParts

Recommend ==
    /\ pc = "recommend"
    /\ \E order \in CountOrders(out.conflicts) :
          rec' = recommend_policy_all(out.conflicts, order)
    /\ pc' = "recommended"
    /\ UNCHANGED <<entities, envs, map, out, lhs, rhs, ring, z3, prev, parts>>

NextRec == Recommend

SpecRec == InitRec /\ [][NextRec]_vars

\* C10, as the specification states it: the recommendation for a conflict map
\* with an entry is not empty, and every rule list of the map shares a rule
\* with it
C10_AsClaimed ==
    pc = "recommended" =>
        /\ rec # <<>>
        /\ \A k \in DOMAIN out.conflicts :
              Range(out.conflicts[k]) \cap Range(rec) # {}

-----------------------------------------------------------------------------
(* Z3Solver (solver/z3.rs).  The solver is modelled by what it holds: the  *)
(* tracked clauses and a stack of scopes, each the set of the literals     *)
(* asserted in it.  check() is Sat when an assignment of the variables     *)
(* satisfies the clauses and the literals of every scope; an unsat core is *)
(* any set of trackers whose clauses are unsatisfiable with the literals.  *)

\* Display for EntityRule, rule.rs 364-405: the type, the targets, the
\* metadata and the rule source; neither the source name nor the variant
Display(r) == [targets |-> r.targets, type |-> r.type, line |-> r.line, meta |-> r.meta]

\* z3.rs 157-197: the rules in the order they are tracked
TrackOrder(m) == Flatten([i \in DOMAIN m.entities |-> EntityRules(m.entities[i])])

\* z3.rs 157-197: the tracked clauses; the variable of the entity is the one
\* of the entity's name, the tracker the one of the rule's Display
TrackedClauses(m) ==
    UNION {{[name |-> m.entities[i].name, rule |-> r, tracker |-> Display(r)]
            : r \in m.entities[i].requires \cup m.entities[i].excludes}
           : i \in {j \in DOMAIN m.entities : ~is_dummy(m.entities[j])}}

\* get_or_create_bool: the names that have a variable
Vars(m) == UNION {{c.name} \cup c.rule.targets : c \in TrackedClauses(m)}

\* create_rule_tracker, z3.rs 57-69: rule_mapping keeps, for a tracker, the
\* rule inserted last
rule_mapping(m) ==
    LET order == TrackOrder(m)
    IN  [p \in {Display(order[i]) : i \in DOMAIN order} |->
            order[CHOOSE i \in DOMAIN order :
                    /\ Display(order[i]) = p
                    /\ \A j \in DOMAIN order : Display(order[j]) = p => j <= i]]

\* an exclusion that forbids the target whether or not the entity is placed
conflict_forbids_target(A, a, b) == ~A[b]

\* require, z3.rs 71-76, and conflict, z3.rs 78-83, under the assignment A
require(A, a, b) == A[a] => A[b]
conflict(A, a, b) == ~A[a] \/ ~A[b]

\* the clause of a rule when a Multi require asks for every target
Holds_every_target(A, name, r) ==
    IF r.type = "require" THEN \A t \in r.targets : require(A, name, t)
    ELSE \A t \in r.targets : conflict(A, name, t)

\* z3.rs 161-196: the clause of one rule of the entity `name` under A
Holds(A, name, r) ==
    IF r.type = "require"
    THEN IF r.kind = "Mono" THEN require(A, name, MonoTarget(r))
         ELSE \E t \in r.targets : require(A, name, t)
    ELSE IF r.kind = "Mono" THEN conflict(A, name, MonoTarget(r))
         ELSE \A t \in r.targets : conflict(A, name, t)

Lit(v, positive) == [var |-> v, pos |-> positive]

\* solver.check(): Sat for the clauses C and the literals lits over the
\* variables V
Sat(V, C, lits) ==
    \E A \in [V -> BOOLEAN] :
        /\ \A c \in C : Holds(A, c.name, c.rule)
        /\ \A l \in lits : A[l.var] = l.pos

\* check_and_get, z3.rs 96-150: None when Sat; when Unsat the rules that
\* rule_mapping gives for the trackers of an unsat core
check_and_get(st) ==
    LET lits == UNION Range(st.stack)
    IN  IF Sat(st.vars, st.clauses, lits) THEN {[sat |-> TRUE, rules |-> {}]}
        ELSE {[sat |-> FALSE, rules |-> {st.mapping[p] : p \in core}] :
                 core \in {x \in SUBSET {c.tracker : c \in st.clauses} :
                              ~Sat(st.vars, {c \in st.clauses : c.tracker \in x}, lits)}}

\* z3.rs 289-293: a name with an underscore is cut before its first underscore
original_name(name) ==
    IF \E i \in DOMAIN name : name[i] = "_"
    THEN SubSeq(name, 1, (CHOOSE i \in DOMAIN name :
                             /\ name[i] = "_"
                             /\ \A j \in 1..(i - 1) : name[j] # "_") - 1)
    ELSE name

Put(f, k, v) == [x \in DOMAIN f \cup {k} |-> IF x = k THEN v ELSE f[x]]

\* the maps that give every key one of the orders of its set of rules
RECURSIVE ListMaps(_)
ListMaps(sets) ==
    IF DOMAIN sets = {} THEN {EmptyMap}
    ELSE LET k == CHOOSE x \in DOMAIN sets : TRUE
             rest == [x \in DOMAIN sets \ {k} |-> sets[x]]
         IN  {Put(f, k, o) : f \in ListMaps(rest), o \in Orderings(sets[k])}

\* z3.rs 286-318: the keys rewritten, the lists of one key united; a list
\* comes out of a HashSet in any order
post_merge(ret) ==
    LET keys == {original_name(n) : n \in DOMAIN ret}
        united == [k \in keys |->
                      UNION {ret[n] : n \in {x \in DOMAIN ret : original_name(x) = k}}]
    IN  IF keys = {} THEN {Ok} ELSE {Conflict(m) : m \in ListMaps(united)}

\* z3.rs 286-313 alone: the sets of rules under the rewritten keys
merged_results(ret) ==
    [k \in {original_name(n) : n \in DOMAIN ret} |->
        UNION {ret[n] : n \in {x \in DOMAIN ret : original_name(x) = k}}]

Panic == [kind |-> "Panic"]

\* z3.rs 155-197: a new solver with the tracked clauses
Z3Encode ==
    /\ pc = "built" /\ map.ok
    /\ z3' = [phase |-> "probe",
              vars |-> Vars(map),
              clauses |-> TrackedClauses(map),
              mapping |-> rule_mapping(map),
              stack |-> <<>>,
              todo |-> map.names,
              ret |-> [x \in {} |-> {}],
              name |-> <<>>, env |-> 0, results |-> {}, cores |-> <<>>]
    /\ pc' = "probe"
    /\ UNCHANGED <<entities, envs, map, out, lhs, rhs, rec, ring, prev, parts>>

\* z3.rs 202-217, 276-284: the probe of one name without environments; the
\* names come out of a HashSet in any order
Probe ==
    /\ pc = "probe" /\ envs = "none"
    /\ \E name \in z3.todo :
         IF name \notin z3.vars
         THEN z3' = [z3 EXCEPT !.todo = @ \ {name}]
         ELSE LET pushed == [z3 EXCEPT !.stack = Append(@, {Lit(name, TRUE)})]
              IN  \E result \in check_and_get(pushed) :
                     z3' = [z3 EXCEPT !.todo = @ \ {name},
                                      !.stack = SubSeq(pushed.stack, 1, Len(pushed.stack) - 1),
                                      !.ret = IF result.sat THEN @
                                              ELSE Put(@, name, result.rules)]
    /\ UNCHANGED <<pc, entities, envs, map, out, lhs, rhs, rec, ring, prev, parts>>

\* z3.rs 202-223: the probe of one name with environments, up to the loop
\* over the environments
ProbeEnter ==
    /\ pc = "probe" /\ envs # "none"
    /\ \E name \in z3.todo :
         IF name \notin z3.vars
         THEN /\ z3' = [z3 EXCEPT !.todo = @ \ {name}]
              /\ pc' = pc
         ELSE /\ z3' = [z3 EXCEPT !.todo = @ \ {name},
                                  !.stack = Append(@, {Lit(name, TRUE)}),
                                  !.name = name, !.env = 1, !.results = {},
                                  !.cores = <<>>]
              /\ pc' = "env"
    /\ UNCHANGED <<entities, envs, map, out, lhs, rhs, rec, ring, prev, parts>>

\* z3.rs 230-250: the literals asserted for the labels of an environment
LabelLits(m, V, labels) ==
    UNION {IF label \in m.self_conflicts
           THEN IF Sibling1(label) \in V /\ Sibling2(label) \in V
                THEN {Lit(Sibling1(label), TRUE), Lit(Sibling2(label), TRUE)}
                ELSE {}
           ELSE IF label \in V THEN {Lit(label, TRUE)} ELSE {}
           : label \in labels}

\* z3.rs 252-259: the names that are negated
Negated(m, labels, name) == {label \in m.names : ~(label \in labels \/ name = label)}

\* z3.rs 225-268: one environment.  The unwrap of z3.rs 257 panics on a
\* name without a variable; Sat returns from the probe with both scopes
\* still pushed; Unsat adds the rules of the core and pops the scope.
EnvProbe ==
    /\ pc = "env" /\ z3.env <= Len(envs)
    /\ LET labels == envs[z3.env]
           negated == Negated(map, labels, z3.name)
       IN  IF \E label \in negated : label \notin z3.vars
           THEN /\ out' = Panic
                /\ pc' = "panicked"
                /\ z3' = z3
           ELSE LET scope == LabelLits(map, z3.vars, labels)
                             \cup {Lit(label, FALSE) : label \in negated}
                    pushed == [z3 EXCEPT !.stack = Append(@, scope)]
                IN  /\ out' = out
                    /\ \E result \in check_and_get(pushed) :
                         IF result.sat
                         THEN /\ z3' = pushed
                              /\ pc' = "probe"
                         ELSE /\ z3' = [z3 EXCEPT !.results = @ \cup result.rules,
                                                  !.cores = Append(@, result.rules),
                                                  !.env = @ + 1]
                              /\ pc' = "env"
    /\ UNCHANGED <<entities, envs, map, lhs, rhs, rec, ring, prev, parts>>

\* z3.rs 270-284: after the last environment; empty results return from the
\* probe with the scope of the name still pushed
ProbeLeave ==
    /\ pc = "env" /\ z3.env > Len(envs)
    /\ z3' = IF z3.results = {} THEN z3
             ELSE [z3 EXCEPT !.stack = SubSeq(@, 1, Len(@) - 1),
                             !.ret = Put(@, z3.name, z3.results)]
    /\ pc' = "probe"
    /\ UNCHANGED <<entities, envs, map, out, lhs, rhs, rec, ring, prev, parts>>

\* z3.rs 286-318: the post-merge and the verdict
Z3Finish ==
    /\ pc = "probe" /\ z3.todo = {}
    /\ out' \in post_merge(z3.ret)
    /\ pc' = "solved"
    /\ UNCHANGED <<entities, envs, map, lhs, rhs, rec, ring, z3, prev, parts>>

-----------------------------------------------------------------------------
(* The SMT engine without environments.                                    *)

MaxZ3Rules == 2

Z3Names == {Str_a, Str_a_b}

Z3Targets == {Str_a, Str_a_b, Str_b}

\* the Mono rules over the targets, and the Multi rules over the other names
Z3Pool(n) ==
    {r \in RulePool(n, Z3Targets, {0}, {"none"}) :
        r.kind = "Multi" => r.targets = Z3Targets \ {n}}

InitZ3 ==
    /\ pc = "build"
    /\ entities \in EntityListsFrom({SortedNames(Z3Names)}, Z3Pool, MaxZ3Rules)
    /\ envs = "none" /\ map = NoMap /\ out = NoVerdict
    /\ lhs = NoVerdict /\ rhs = NoVerdict /\ rec = <<>> /\ ring = NoRing /\ z3 = NoZ3
    /\ prev = NoPrev /\ parts = NoParts

NextZ3 == Build \/ Z3Encode \/ Probe \/ Z3Finish

SpecZ3 == InitZ3 /\ [][NextZ3]_vars

\* the rule clauses of the map, as C1 lists them
RuleClauses == TrackedClauses(map)

\* C1, as the specification states it: after Ok some assignment of the
\* universe names with a name set satisfies every rule clause; after
\* Conflict no assignment satisfies the rule clauses with the variable of a
\* key, or of one of its siblings, set
C1_AsClaimed ==
    pc = "solved" =>
        /\ out = Ok =>
              \E A \in [map.names -> BOOLEAN] :
                  /\ \E n \in map.names : A[n]
                  /\ \A c \in RuleClauses : Holds(A, c.name, c.rule)
        /\ out.kind = "Conflict" =>
              \A N \in DOMAIN out.conflicts :
                  \E v \in {N, Sibling1(N), Sibling2(N)} \cap map.names :
                      ~Sat(map.names, RuleClauses, {Lit(v, TRUE)})

-----------------------------------------------------------------------------
(* The SMT engine with environments.                                       *)

MaxEnvRules == 2
MaxEnvs == 2

EnvNames == {Str_a, Str_b}

\* the Mono rules over the names; of the two entities only a may exclude itself
EnvPool(n) ==
    {r \in RulePool(n, EnvNames, {0}, {"none"}) :
        /\ r.kind = "Mono"
        /\ ~(n = Str_b /\ r.type = "exclude" /\ r.targets = {Str_b})}

\* DefaultEnvParser::parse, env.rs 25-80: at least one environment, no two
\* with the same labels, in the order of a HashMap
EnvLists == UNION {Orderings(E) : E \in SubsetsUpTo(SUBSET EnvNames, MaxEnvs) \ {{}}}

InitZ3Env ==
    /\ pc = "build"
    /\ entities \in EntityListsFrom({SortedNames(EnvNames)}, EnvPool, MaxEnvRules)
    /\ envs \in EnvLists
    /\ map = NoMap /\ out = NoVerdict
    /\ lhs = NoVerdict /\ rhs = NoVerdict /\ rec = <<>> /\ ring = NoRing /\ z3 = NoZ3
    /\ prev = NoPrev /\ parts = NoParts

NextZ3Env == Build \/ Z3Encode \/ ProbeEnter \/ EnvProbe \/ ProbeLeave \/ Z3Finish

SpecZ3Env == InitZ3Env /\ [][NextZ3Env]_vars

\* C2, as the specification states it: when the probe of a name starts the
\* solver holds no scope, and when the probe of an environment starts it
\* holds the scope of the probed name and nothing else
C2_AsClaimed ==
    /\ pc = "probe" => z3.stack = <<>>
    /\ pc = "env" => z3.stack = <<{Lit(z3.name, TRUE)}>>

\* the set C3 names for the name N and the labels of one environment is
\* unsatisfiable
EnvUnsat(N, labels) ==
    ~Sat(map.names \cup labels, RuleClauses,
         {Lit(N, TRUE)} \cup {Lit(L, TRUE) : L \in labels}
         \cup {Lit(M, FALSE) : M \in (map.names \ labels) \ {N}})

\* C3, as the specification states it: a probed name is in the conflict map
\* exactly when the set is unsatisfiable in every environment, and its rules
\* are those recovered from the unsat cores of the environments
C3_AsClaimed ==
    /\ pc = "solved" =>
          \A N \in z3.vars \cap map.names :
              N \in DOMAIN z3.ret <=> \A i \in DOMAIN envs : EnvUnsat(N, envs[i])
    /\ (pc = "probe" /\ z3.name \in DOMAIN z3.ret) =>
          z3.ret[z3.name] = UNION {z3.cores[i] : i \in DOMAIN z3.cores}

-----------------------------------------------------------------------------
(* The recommend branch of execute (plugin/k8s/cli.rs 409-453) and the pass *)
(* over the manifests that the recommendation leaves.  A rule's `line` is   *)
(* its place (file and line) in the manifests; 0 is EntityRuleSource::      *)
(* Unknown.                                                                 *)

\* cli.rs 415-431: the priority of every key of the conflicts, looked up
\* among the entities of the map; the unwrap panics on a key that names none
PriorityLookupPanics(m, conflicts) ==
    \E k \in DOMAIN conflicts : \A i \in DOMAIN m.entities : m.entities[i].name # k

priority_map(m, conflicts) ==
    [k \in DOMAIN conflicts |->
        m.entities[CHOOSE i \in DOMAIN m.entities : m.entities[i].name = k].priority]

\* cli.rs 538-547
critical_apps(priorities) == {k \in DOMAIN priorities : priorities[k] = "critical"}

\* recommend_policy_high_priority_first, cli.rs 534-565: the rules of the
\* critical keys, out of a HashSet in any order
recommend_policy_high_priority_first(priorities, conflicts) ==
    Orderings(UNION {Range(conflicts[k]) : k \in critical_apps(priorities) \cap DOMAIN conflicts})

\* recommend_policy_all over every order of the counted rules
RecommendAll(conflicts) ==
    {recommend_policy_all(conflicts, order) : order \in CountOrders(conflicts)}

\* cli.rs 412-442: the recommendations of a policy, with the names they were
\* computed from; an empty list falls back to recommend_policy_all
Recommendations(policy, m, conflicts) ==
    LET all == {[rules |-> l, from |-> DOMAIN conflicts] : l \in RecommendAll(conflicts)}
    IN  IF policy = "All" THEN {x \in all : x.rules # <<>>}
                               \cup (IF \E x \in all : x.rules = <<>> THEN all ELSE {})
        ELSE LET priorities == priority_map(m, conflicts)
                 first == recommend_policy_high_priority_first(priorities, conflicts)
             IN  IF first = {<<>>} THEN all
                 ELSE {[rules |-> l, from |-> critical_apps(priorities)] : l \in first}

\* remove_rules_from_entities, plugin.rs 1130-1182, and
\* remove_rule_from_pod_spec, plugin.rs 1000-1066: the terms at the named
\* places are taken out of the manifests; a rule of unknown place names none
remove_rules_from_entities(ents, rules) ==
    LET file_name_and_lines == {rules[i].line : i \in DOMAIN rules} \ {0}
    IN  [i \in DOMAIN ents |->
            [ents[i] EXCEPT !.requires = {r \in @ : r.line \notin file_name_and_lines},
                            !.excludes = {r \in @ : r.line \notin file_name_and_lines}]]

Policies == {"All", "HighPriorityFirst"}

\* cli.rs 409-453 for a Conflict verdict, followed by the next pass over the
\* manifests written to the solution directory
ApplyRecommendation ==
    /\ pc = "solved" /\ out.kind = "Conflict" /\ prev.pass = 0
    /\ \E policy \in Policies :
         IF policy = "HighPriorityFirst" /\ PriorityLookupPanics(map, out.conflicts)
         THEN /\ prev' = [pass |-> 1, policy |-> policy, from |-> {}]
              /\ pc' = "panicked"
              /\ UNCHANGED <<entities, map, out, rec, z3>>
         ELSE \E r \in Recommendations(policy, map, out.conflicts) :
                 /\ rec' = r.rules
                 /\ entities' = remove_rules_from_entities(entities, r.rules)
                 /\ prev' = [pass |-> 1, policy |-> policy, from |-> r.from]
                 /\ pc' = "build"
                 /\ map' = NoMap /\ out' = NoVerdict /\ z3' = NoZ3
    /\ UNCHANGED <<envs, lhs, rhs, ring, parts>>

MaxFixRules == 4

FixNames == {Str_a, Str_b}

\* a and b may require and exclude c; every rule stands at a place of its own
FixPool(n) ==
    {Mono(n, Str_c, "require", IF n = Str_a THEN 1 ELSE 3, "none"),
     Mono(n, Str_c, "exclude", IF n = Str_a THEN 2 ELSE 4, "none")}

Priorities == {"critical", "default"}

InitFix ==
    /\ pc = "build"
    /\ \E ents \in EntityListsFrom({SortedNames(FixNames)}, FixPool, MaxFixRules) :
         \E prio \in [DOMAIN ents -> Priorities] :
            entities = [i \in DOMAIN ents |-> [ents[i] EXCEPT !.priority = prio[i]]]
    /\ envs = "none" /\ map = NoMap /\ out = NoVerdict
    /\ lhs = NoVerdict /\ rhs = NoVerdict /\ rec = <<>> /\ ring = NoRing /\ z3 = NoZ3
    /\ prev = NoPrev /\ parts = NoParts

NextFix == Build \/ Z3Encode \/ Probe \/ Z3Finish \/ ApplyRecommendation

SpecFix == InitFix /\ [][NextFix]_vars

\* C11, as the specification states it: after the rules named by the
\* recommendation are removed, the next pass reports none of the names the
\* recommendation was computed from
C11_AsClaimed ==
    (prev.pass = 1 /\ pc = "solved" /\ out.kind = "Conflict") =>
        DOMAIN out.conflicts \cap prev.from = {}

MaxPolicyRules == 2

PolicyNames == {Str_a, Str_b}

\* a may require and exclude itself, b may require and exclude c
PolicyPool(n) ==
    IF n = Str_a
    THEN {Mono(n, Str_a, "require", 1, "none"), Mono(n, Str_a, "exclude", 2, "none")}
    ELSE {Mono(n, Str_c, "require", 3, "none"), Mono(n, Str_c, "exclude", 4, "none")}

InitPolicy ==
    /\ pc = "build"
    /\ \E ents \in EntityListsFrom({SortedNames(PolicyNames)}, PolicyPool, MaxPolicyRules) :
         \E prio \in [DOMAIN ents -> Priorities] :
            entities = [i \in DOMAIN ents |-> [ents[i] EXCEPT !.priority = prio[i]]]
    /\ envs = "none" /\ map = NoMap /\ out = NoVerdict
    /\ lhs = NoVerdict /\ rhs = NoVerdict /\ rec = <<>> /\ ring = NoRing /\ z3 = NoZ3
    /\ prev = NoPrev /\ parts = NoParts

NextPolicy == Build \/ Z3Encode \/ Probe \/ Z3Finish \/ ApplyRecommendation

SpecPolicy == InitPolicy /\ [][NextPolicy]_vars

\* the conflicted names whose entity, as given to the run, is critical
CriticalConflicted ==
    {k \in DOMAIN out.conflicts :
        \E i \in DOMAIN entities : entities[i].name = k /\ entities[i].priority = "critical"}

\* C12, as the specification states it: under HighPriorityFirst the
\* recommendation is defined for every conflict map the engine returns, and
\* it is the duplicate-free union of the lists of the critical conflicted
\* entities, or the All recommendation when that union is empty
C12_AsClaimed ==
    [][(pc = "solved" /\ out.kind = "Conflict" /\ prev.pass = 0 /\ prev'.pass = 1
            /\ prev'.policy = "HighPriorityFirst") =>
        /\ pc' # "panicked"
        /\ LET union == UNION {Range(out.conflicts[k]) : k \in CriticalConflicted}
           IN  IF union # {}
               THEN Range(rec') = union /\ Len(rec') = Cardinality(union)
               ELSE rec' \in RecommendAll(out.conflicts)]_vars

-----------------------------------------------------------------------------
(* The keys of the verdicts and the pipeline of the tests.                 *)

\* the names of the entities given to EntityMap::build
EntityNames == {entities[i].name : i \in DOMAIN entities}

\* C13, as the specification states it: every key of a returned Conflict
\* map is the name of an entity of the list given to EntityMap::build
C13_AsClaimed ==
    (pc = "solved" /\ out.kind = "Conflict") => DOMAIN out.conflicts \subseteq EntityNames

\* Z3Solver::solve without environments, z3.rs 199-284, as a function of
\* the map: every probe pushes the name, checks and pops, so the probes do
\* not depend on each other; ret holds the rules of a core for every name
\* whose probe is Unsat
RECURSIVE ProbeAll(_, _, _)
ProbeAll(st, todo, ret) ==
    IF todo = {} THEN {ret}
    ELSE LET name == CHOOSE x \in todo : TRUE
         IN  IF name \notin st.vars THEN ProbeAll(st, todo \ {name}, ret)
             ELSE UNION {ProbeAll(st, todo \ {name},
                                  IF result.sat THEN ret ELSE Put(ret, name, result.rules))
                         : result \in check_and_get([st EXCEPT !.stack = <<{Lit(name, TRUE)}>>])}

Z3Solve(m) ==
    LET st == [vars |-> Vars(m), clauses |-> TrackedClauses(m),
               mapping |-> rule_mapping(m), stack |-> <<>>]
        merged == {merged_results(ret) : ret \in ProbeAll(st, m.names, [x \in {} |-> {}])}
    IN  UNION {IF DOMAIN u = {} THEN {Ok} ELSE {Conflict(f) : f \in ListMaps(u)} : u \in merged}

\* RingSolver::solve, ring.rs 80-163, as a function of the map: the cycles
\* of graph.cycles() are visited in any order
RECURSIVE RingFold(_, _, _)
RingFold(m, st, todo) ==
    IF todo = {} THEN {PostFilter(st.conflicts)}
    ELSE UNION {RingFold(m, VisitEdges(st, CycleEdges(m, Range(c), SortedNames(Range(c)))),
                         todo \ {c}) : c \in todo}

RingSolve(m) ==
    IF Cycles(m) = {} THEN {Ok}
    ELSE RingFold(m, [rule_ways |-> [x \in {} |-> {}], conflicts |-> EmptyMap],
                  {c \in Cycles(m) : Len(c) > 1})

\* solve of tests/basic.rs 20-43: the SMT engine, the Ring engine, and
\* ring_result.merge(z3_result)
TestSolve ==
    /\ pc = "built" /\ map.ok
    /\ \E z3_result \in Z3Solve(map), ring_result \in RingSolve(map) :
          out' = merge(ring_result, z3_result)
    /\ pc' = "merged"
    /\ UNCHANGED <<entities, envs, map, lhs, rhs, rec, ring, z3, prev, parts>>

MaxTestRules == 2

TestNames == {Str_a, Str_a_b}

\* a may require and exclude itself, b, and the two together; a_b may
\* require and exclude b
TestPool(n) ==
    IF n = Str_a
    THEN RulePool(n, {Str_a, Str_b}, {0}, {"none"})
    ELSE {Mono(n, Str_b, "require", 0, "none"), Mono(n, Str_b, "exclude", 0, "none")}

InitTest ==
    /\ pc = "build"
    /\ entities \in EntityListsFrom({SortedNames(TestNames)}, TestPool, MaxTestRules)
    /\ envs = "none" /\ map = NoMap /\ out = NoVerdict
    /\ lhs = NoVerdict /\ rhs = NoVerdict /\ rec = <<>> /\ ring = NoRing /\ z3 = NoZ3
    /\ prev = NoPrev /\ parts = NoParts

NextTest == Build \/ TestSolve

SpecTest == InitTest /\ [][NextTest]_vars

\* the engines as functions give the verdicts the engines give step by step
Z3SolveAgrees == (pc = "solved" /\ z3.phase = "probe") => out \in Z3Solve(map)
RingSolveAgrees == (pc = "solved" /\ z3 = NoZ3) => out \in RingSolve(map)

\* the entity carries a Mono rule of the type whose target is the entity
SelfRule(e, type) ==
    \E r \in e.requires \cup e.excludes :
        r.kind = "Mono" /\ r.type = type /\ r.targets = {e.name}

\* the list holds a rule derived from a Mono rule of x on itself
HoldsSelfRule(list, x, type) ==
    \E r \in Range(list) :
        /\ r.kind = "Mono" /\ r.type = type /\ r.source = x
        /\ r.targets \subseteq {x, Sibling1(x), Sibling2(x)}

\* C14, as the specification states it: an entity that requires and excludes
\* itself by Mono rules is a key of the Conflict the SMT engine returns, and
\* its list holds a rule derived from the require and one from the exclude
C14_AsClaimed ==
    pc = "solved" =>
        \A i \in DOMAIN entities :
            (SelfRule(entities[i], "require") /\ SelfRule(entities[i], "exclude")) =>
                /\ out.kind = "Conflict"
                /\ entities[i].name \in DOMAIN out.conflicts
                /\ HoldsSelfRule(out.conflicts[entities[i].name], entities[i].name, "require")
                /\ HoldsSelfRule(out.conflicts[entities[i].name], entities[i].name, "exclude")

\* the only rules of the list are those of entities[i]: a require-Multi
\* over the entity and another name, and a Mono exclude of the entity
DisjunctiveSelfRequire(i) ==
    /\ \A j \in DOMAIN entities \ {i} : is_dummy(entities[j])
    /\ \E r \in entities[i].requires :
          /\ entities[i].requires = {r}
          /\ r.kind = "Multi" /\ entities[i].name \in r.targets
          /\ r.targets # {entities[i].name}
    /\ \E e \in entities[i].excludes :
          /\ entities[i].excludes = {e}
          /\ e.kind = "Mono" /\ e.targets = {entities[i].name}

RequiresOnlyExcluded(e) ==
    \E r \in e.requires :
        \A t \in r.targets : \E x \in e.excludes : t \in x.targets

\* C16, as the specification states it: an entity with a require rule every
\* target of which it also excludes is a key of the merged Ring and SMT
\* Conflict
C16_AsClaimed ==
    pc = "merged" =>
        \A i \in DOMAIN entities :
            RequiresOnlyExcluded(entities[i]) =>
                out.kind = "Conflict" /\ entities[i].name \in DOMAIN out.conflicts

\* the Mono require rules of the given entities whose target is another
\* given entity
MonoRequires ==
    UNION {{r \in entities[i].requires :
               r.kind = "Mono" /\ r.targets \subseteq EntityNames \ {entities[i].name}}
           : i \in DOMAIN entities}

\* the rules of MonoRequires that lie on a cycle of such rules
OnMonoCycle ==
    LET E == {<<r.source, MonoTarget(r)>> : r \in MonoRequires}
    IN  {r \in MonoRequires : r.source \in ReachFrom(E, {MonoTarget(r)})}

\* C17, as the specification states it: every rule of a cycle of Mono
\* require rules between defined entities is reported by the Ring engine
\* under the name of its source, whatever other rules the entities carry
C17_AsClaimed ==
    pc = "solved" =>
        \A r \in OnMonoCycle :
            /\ out.kind = "Conflict"
            /\ r.source \in DOMAIN out.conflicts
            /\ r \in Range(out.conflicts[r.source])

-----------------------------------------------------------------------------
(* The SMT engine without environments over Mono rules                     *)
(* (tests/advance.rs 99-125, tests/basic.rs 178-183).                      *)

MaxMonoRules == 2

\* the Mono rules over the targets, self-references included
MonoPool(n) == {r \in RulePool(n, Z3Targets, {0}, {"none"}) : r.kind = "Mono"}

InitZ3Mono ==
    /\ pc = "build"
    /\ entities \in EntityListsFrom({SortedNames(Z3Names)}, MonoPool, MaxMonoRules)
    /\ envs = "none" /\ map = NoMap /\ out = NoVerdict
    /\ lhs = NoVerdict /\ rhs = NoVerdict /\ rec = <<>> /\ ring = NoRing /\ z3 = NoZ3
    /\ prev = NoPrev /\ parts = NoParts

NextZ3Mono == Build \/ Z3Encode \/ Probe \/ Z3Finish

SpecZ3Mono == InitZ3Mono /\ [][NextZ3Mono]_vars

\* the types of the rules of the given entities
RuleTypes ==
    UNION {{r.type : r \in entities[i].requires \cup entities[i].excludes} : i \in DOMAIN entities}

OnlySelfExclude(i) ==
    /\ \A j \in DOMAIN entities \ {i} : is_dummy(entities[j])
    /\ entities[i].requires = {}
    /\ \E e \in entities[i].excludes :
          /\ entities[i].excludes = {e}
          /\ e.kind = "Mono" /\ e.targets = {entities[i].name}

\* C19, as the specification states it: when the only rule is X exclude X
\* and an environment has X among its labels, the SMT engine with
\* environments returns Conflict
C19_AsClaimed ==
    (pc \in {"solved", "panicked"} /\ envs # "none") =>
        \A i \in DOMAIN entities :
            (OnlySelfExclude(i) /\ \E k \in DOMAIN envs : entities[i].name \in envs[k]) =>
                out.kind = "Conflict"

-----------------------------------------------------------------------------
(* The Unknown engine over the entities of the map.                        *)

\* the rules of the map entity e with a target that is the name of no
\* entity of the map
UndefinedTargetRules(e) ==
    {r \in e.requires \cup e.excludes : r.targets \ MapEntityNames # {}}

\* C20: the Unknown engine reports exactly the entities of the map that have
\* a rule with a target no entity of the map defines, each with exactly its
\* rules that have such a target, and returns Ok when there is none
C20_UnknownReportsUndefinedTargets ==
    pc = "solved" =>
        LET flagged == {i \in DOMAIN map.entities : UndefinedTargetRules(map.entities[i]) # {}}
        IN  IF flagged = {} THEN out = Ok
            ELSE /\ out.kind = "Conflict"
                 /\ DOMAIN out.conflicts = {map.entities[i].name : i \in flagged}
                 /\ \A i \in flagged :
                       LET list == out.conflicts[map.entities[i].name]
                       IN  /\ Range(list) = UndefinedTargetRules(map.entities[i])
                           /\ Len(list) = Cardinality(Range(list))

\* an entity reported for a Multi rule with one missing target, while
\* another of its rules, whose target is defined, is left out
C20_Witness ==
    /\ pc = "solved" /\ out.kind = "Conflict"
    /\ \E i \in DOMAIN map.entities :
          /\ map.entities[i].name \in DOMAIN out.conflicts
          /\ \E r \in Range(out.conflicts[map.entities[i].name]) :
                r.kind = "Multi" /\ r.targets \cap MapEntityNames # {}
          /\ \E r \in map.entities[i].requires \cup map.entities[i].excludes :
                r \notin Range(out.conflicts[map.entities[i].name])

-----------------------------------------------------------------------------
(* split_by_metadata (util/mod.rs) and the solve of each topology           *)
(* (plugin/k8s/cli.rs 363-394).                                            *)

\* split_entities_by_topo_key, cli.rs 530-532: the default topology key
DefaultTopologyKey == "node"

\* util/mod.rs 19-31: the metadata value of the rule, the default when the
\* rule has none, whatever the default is spelt as
TopologyKey_keeps_missing(r, default_meta_key) == r.meta

\* util/mod.rs 19-31 and 40-52: the metadata value of the rule, or the
\* default when the rule has none
TopologyKey(r, default_meta_key) == IF r.meta = "none" THEN default_meta_key ELSE r.meta

\* util/mod.rs 60-65: the keys of require_topo and conflict_topo
TopologyKeys(entity, default_meta_key) ==
    {TopologyKey(r, default_meta_key) : r \in entity.requires \cup entity.excludes}

\* util/mod.rs 69-96: the entity of one key
TopologyEntity(entity, key, default_meta_key) ==
    [name |-> entity.name,
     requires |-> {r \in entity.requires : TopologyKey(r, default_meta_key) = key},
     excludes |-> {r \in entity.excludes : TopologyKey(r, default_meta_key) = key},
     source |-> entity.source,
     priority |-> entity.priority]

\* util/mod.rs 100-107: the entities of one key, pushed in the order of the
\* input
RECURSIVE TopologyEntities(_, _, _)
TopologyEntities(ents, key, default_meta_key) ==
    IF ents = <<>> THEN <<>>
    ELSE (IF key \in TopologyKeys(Head(ents), default_meta_key)
          THEN <<TopologyEntity(Head(ents), key, default_meta_key)>>
          ELSE <<>>)
         \o TopologyEntities(Tail(ents), key, default_meta_key)

\* split_by_metadata, util/mod.rs 7-108
split_by_metadata(ents, default_meta_key) ==
    [key \in UNION {TopologyKeys(ents[i], default_meta_key) : i \in DOMAIN ents} |->
        TopologyEntities(ents, key, default_meta_key)]

\* cli.rs 347-353: the entities are split by topology key
SplitByTopology ==
    /\ pc = "split"
    /\ parts' = [key |-> "none", done |-> {},
                 split |-> split_by_metadata(entities, DefaultTopologyKey)]
    /\ pc' = "topology"
    /\ UNCHANGED <<entities, envs, map, out, lhs, rhs, rec, ring, z3, prev>>

\* cli.rs 363-366: the next (key, entities) of topology_split_entities, out
\* of a HashMap in any order, and its entity map
TopologyBuild ==
    /\ pc \in {"topology", "solved"}
    /\ \E key \in DOMAIN parts.split \ parts.done :
          /\ \E duplicates \in Orderings(check_duplicate_names(parts.split[key])) :
                 map' = build(parts.split[key], duplicates)
          /\ parts' = [parts EXCEPT !.key = key, !.done = @ \cup {key}]
    /\ out' = NoVerdict
    /\ pc' = "built"
    /\ UNCHANGED <<entities, envs, lhs, rhs, rec, ring, z3, prev>>

MaxTopologyRules == 2

TopologyNames == {Str_a, Str_b}

TopologyTargets == {Str_a, Str_b, Str_c}

Topologies == {"none", "node", "rack"}

\* the Mono rules over the targets, with and without a topology
TopologyPool(n) ==
    {r \in RulePool(n, TopologyTargets, {0}, Topologies) : r.kind = "Mono"}

\* a comes from a file and is critical, b is of unknown source and default
\* priority
InitTopology ==
    /\ pc = "split"
    /\ \E ents \in EntityListsFrom({SortedNames(TopologyNames)}, TopologyPool, MaxTopologyRules) :
          entities = [i \in DOMAIN ents |->
                        [name |-> ents[i].name,
                         requires |-> ents[i].requires,
                         excludes |-> ents[i].excludes,
                         source |-> IF ents[i].name = Str_a THEN "file" ELSE "unknown",
                         priority |-> IF ents[i].name = Str_a THEN "critical" ELSE "default"]]
    /\ envs = "none" /\ map = NoMap /\ out = NoVerdict
    /\ lhs = NoVerdict /\ rhs = NoVerdict /\ rec = <<>> /\ ring = NoRing /\ z3 = NoZ3
    /\ prev = NoPrev /\ parts = NoParts

NextTopology == SplitByTopology \/ TopologyBuild \/ Unknown

SpecTopology == InitTopology /\ [][NextTopology]_vars

\* the rules of the entity that count under the key, a rule without
\* metadata under the default key
RulesOfKey(rules, key) ==
    {r \in rules : r.meta = key \/ (r.meta = "none" /\ key = DefaultTopologyKey)}

\* C21: the entity named E in partition K is there exactly when E has a rule
\* for K, and then once, with exactly E's require and exclude rules for K
\* and with E's source and priority; every rule of E is in exactly one
\* partition
C21_SplitPartitionsRules ==
    pc = "topology" =>
        /\ \A key \in DOMAIN parts.split : \A i \in DOMAIN entities :
              LET E == entities[i]
                  there == {j \in DOMAIN parts.split[key] : parts.split[key][j].name = E.name}
              IN  IF RulesOfKey(E.requires \cup E.excludes, key) = {} THEN there = {}
                  ELSE /\ Cardinality(there) = 1
                       /\ \A j \in there :
                             /\ parts.split[key][j].requires = RulesOfKey(E.requires, key)
                             /\ parts.split[key][j].excludes = RulesOfKey(E.excludes, key)
                             /\ parts.split[key][j].source = E.source
                             /\ parts.split[key][j].priority = E.priority
        /\ \A i \in DOMAIN entities : \A r \in entities[i].requires \cup entities[i].excludes :
              Cardinality({key \in DOMAIN parts.split :
                              \E j \in DOMAIN parts.split[key] :
                                  r \in parts.split[key][j].requires
                                           \cup parts.split[key][j].excludes}) = 1

\* an entity with a rule without metadata and a rule of another topology,
\* split over two partitions
C21_Witness ==
    /\ pc = "topology"
    /\ Cardinality(DOMAIN parts.split) = 2
    /\ \E i \in DOMAIN entities :
          /\ \E r \in entities[i].requires \cup entities[i].excludes : r.meta = "none"
          /\ \A key \in DOMAIN parts.split :
                \E j \in DOMAIN parts.split[key] : parts.split[key][j].name = entities[i].name

\* every rule target of the given entities is the name of a given entity
AllTargetsDefined ==
    \A i \in DOMAIN entities : \A r \in entities[i].requires \cup entities[i].excludes :
        r.targets \subseteq EntityNames

\* C30, as the specification states it: when every rule target of the list
\* has a defining entity in the list, the Unknown engine returns Ok on the
\* entity map of every partition
C30_AsClaimed ==
    (pc = "solved" /\ AllTargetsDefined) => out = Ok

-----------------------------------------------------------------------------
(* The trackers of the SMT engine.                                         *)

\* C22, as the specification states it: two distinct rules of the map never
\* share a tracking literal, and the rule recovered from a literal is the
\* rule whose clause was asserted under it
C22_AsClaimed ==
    z3.phase = "probe" =>
        /\ \A c1, c2 \in z3.clauses : c1.rule # c2.rule => c1.tracker # c2.tracker
        /\ \A c \in z3.clauses : z3.mapping[c.tracker] = c.rule

-----------------------------------------------------------------------------
(* The built map.                                                          *)

\* the given entities that build replaced by their siblings
SplitNames ==
    {n \in EntityNames : n \notin MapEntityNames /\ {Sibling1(n), Sibling2(n)} \subseteq MapEntityNames}

\* C23, as the specification states it: the self-conflict set of the built
\* map is the set of the original names of the entities that were split
C23_AsClaimed ==
    (pc = "built" /\ map.ok) => map.self_conflicts = SplitNames

\* the rules of the map entity c that come from the Multi rule r of x: the
\* same place and metadata, and the targets of r but for x and its siblings
ClonesOf(c, r, x) ==
    {q \in c.requires :
        /\ q.kind = "Multi" /\ q.line = r.line /\ q.meta = r.meta
        /\ q.targets \ {Sibling1(x), Sibling2(x)} = r.targets \ {x}}

\* C24, as the specification states it: for a require-Multi of a
\* self-excluding entity X over X and other names, each sibling carries one
\* Multi rule, in which X is replaced by both X_1 and X_2
C24_AsClaimed ==
    (pc = "built" /\ map.ok) =>
        \A i \in DOMAIN entities : \A r \in entities[i].requires :
            LET x == entities[i].name
            IN  (/\ self_conflict_flag(entities[i])
                 /\ r.kind = "Multi" /\ x \in r.targets /\ r.targets # {x}
                 /\ (r.targets \ {x}) \cap SplitNames = {}) =>
                    \A j \in DOMAIN map.entities :
                        map.entities[j].name \in {Sibling1(x), Sibling2(x)} =>
                            ClonesOf(map.entities[j], r, x) =
                                {Multi(x, (r.targets \ {x}) \cup {Sibling1(x), Sibling2(x)},
                                       "require", r.line, r.meta)}

-----------------------------------------------------------------------------
(* The order of the recommendation.                                        *)

\* the number of the distinct lists of the conflict map that hold the rule
ListsWith(conflicts, rule) ==
    Cardinality({l \in unique_rule_set(conflicts) : rule \in Range(l)})

\* the rules of the conflict map by falling number of lists, rules of one
\* number in the order of the rules
ByCountThenRule(conflicts) ==
    LET counted == UNION {Range(l) : l \in unique_rule_set(conflicts)}
    IN  CHOOSE o \in Orderings(counted) :
            \A i \in 1..(Len(o) - 1) :
                \/ ListsWith(conflicts, o[i]) > ListsWith(conflicts, o[i + 1])
                \/ /\ ListsWith(conflicts, o[i]) = ListsWith(conflicts, o[i + 1])
                   /\ RuleCmp(o[i], o[i + 1]) < 0

\* C25, as the specification states it: the recommendation under the policy
\* All is the one list that the conflict map fixes, its rules by falling
\* number of lists and, among rules of one number, in the order of the rules
C25_AsClaimed ==
    pc = "recommended" =>
        rec = recommend_policy_all(out.conflicts, ByCountThenRule(out.conflicts))

-----------------------------------------------------------------------------
(* The sweep of the SMT engine over the environments.                      *)

\* C26, as the specification states it: with environments no probe aborts
\* the sweep, whatever the built map and the environments, and the sweep
\* ends with a verdict
C26_AsClaimed ==
    envs # "none" =>
        /\ pc # "panicked" /\ out # Panic
        /\ pc = "solved" => out.kind \in {"Ok", "Conflict"}

-----------------------------------------------------------------------------
(* The names of the built map.                                             *)

\* C27, as the specification states it: the entities of the map of a
\* successful build have pairwise distinct names
C27_AsClaimed ==
    (pc = "built" /\ map.ok) =>
        \A i, j \in DOMAIN map.entities :
            map.entities[i].name = map.entities[j].name => i = j

-----------------------------------------------------------------------------
(* The rules that the SMT engine reports.                                  *)

\* the rules of the entities given to build
GivenRules == UNION {Range(EntityRules(entities[i])) : i \in DOMAIN entities}

\* C28, as the specification states it: every rule of a conflict list of the
\* SMT engine is a rule of the entities given to build
C28_AsClaimed ==
    (pc = "solved" /\ out.kind = "Conflict") =>
        \A k \in DOMAIN out.conflicts :
            Range(out.conflicts[k]) \subseteq GivenRules

-----------------------------------------------------------------------------
(* The verdict of the Ring engine and the order of its walk.               *)

\* a verdict as the set of its pairs of entity name and rule
VerdictPairs(v) ==
    IF v.kind = "Conflict"
    THEN UNION {{<<k, r>> : r \in Range(v.conflicts[k])} : k \in DOMAIN v.conflicts}
    ELSE {}

MaxOrderRules == 3

\* require rules among a, b and c: a may require b, c or one of the two, b
\* may require a or c, c may require a, or a or a_b, which no entity defines
OrderPool(n) ==
    IF n = Str_a
    THEN {Mono(n, Str_b, "require", 0, "none"), Mono(n, Str_c, "require", 0, "none"),
          Multi(n, {Str_b, Str_c}, "require", 0, "none")}
    ELSE IF n = Str_b
    THEN {Mono(n, Str_a, "require", 0, "none"), Mono(n, Str_c, "require", 0, "none")}
    ELSE {Mono(n, Str_a, "require", 0, "none"),
          Multi(n, {Str_a, Str_a_b}, "require", 0, "none")}

InitRingOrder ==
    /\ pc = "build"
    /\ entities \in EntityListsFrom({SortedNames(RingNames)}, OrderPool, MaxOrderRules)
    /\ envs = "none" /\ map = NoMap /\ out = NoVerdict
    /\ lhs = NoVerdict /\ rhs = NoVerdict /\ rec = <<>> /\ ring = NoRing /\ z3 = NoZ3
    /\ prev = NoPrev /\ parts = NoParts

NextRingOrder == Build \/ RingStart \/ RingCycle \/ RingFinish

SpecRingOrder == InitRingOrder /\ [][NextRingOrder]_vars

\* C29, as the specification states it: as a set of pairs of entity and rule
\* the verdict of the Ring engine is the same for every order of the given
\* entities and every order in which the cycles are walked
C29_AsClaimed ==
    (pc = "solved" /\ z3 = NoZ3) =>
        \A es \in Orderings(Range(entities)) :
            \A v \in RingSolve(build(es, <<>>)) :
                VerdictPairs(v) = VerdictPairs(out)

=============================================================================
